---------------------------- MODULE Spec2Model ----------------------------
(***************************************************************************)
(* A model of cf-sub-manager: the Cloudflare Pages function                *)
(* functions/[[path]].js (subscription aggregation, admin API over a KV    *)
(* namespace, Xray config import) and the admin panel's navigation guards  *)
(* (frontend/src/router/index.js).                                         *)
(*                                                                         *)
(* JavaScript strings that the code inspects character by character are    *)
(* sequences of code points; strings the code only compares for equality   *)
(* (group ids, passwords, path segments, action names) are TLA+ strings.   *)
(***************************************************************************)
EXTENDS Integers, Sequences, FiniteSets, TLC

(***************************************************************************)
(* String literals of the source, as code points.                          *)
(***************************************************************************)
\* "\n"
NL == <<10>>
\* ","
COMMA == <<44>>
\* "="
PAD == <<61>>
\* "data:"
STR_data == <<100, 97, 116, 97, 58>>
\* String(undefined), what atob receives when split(',')[1] is missing
STR_undefined == <<117, 110, 100, 101, 102, 105, 110, 101, 100>>
\* "data:text/plain;base64,"
STR_dataUrlPrefix ==
    <<100, 97, 116, 97, 58, 116, 101, 120, 116, 47, 112, 108, 97, 105, 110,
      59, 98, 97, 115, 101, 54, 52, 44>>
\* "vmess://"
STR_vmess == <<118, 109, 101, 115, 115, 58, 47, 47>>
\* "vless://"
STR_vless == <<118, 108, 101, 115, 115, 58, 47, 47>>
\* "imported-node"
STR_importedNode ==
    <<105, 109, 112, 111, 114, 116, 101, 100, 45, 110, 111, 100, 101>>
\* "tcp", "none", "tls"
STR_tcp == <<116, 99, 112>>
STR_none == <<110, 111, 110, 101>>
STR_tls == <<116, 108, 115>>

(***************************************************************************)
(* Sequence helpers.                                                       *)
(***************************************************************************)
RECURSIVE Flatten(_)
\* [].concat(...arrays): the arrays' elements in order, one level deep
\* (computed by halves, which keeps the evaluation shallow).
Flatten(arrays) ==
    IF arrays = <<>> THEN <<>>
    ELSE IF Len(arrays) = 1 THEN arrays[1]
    ELSE LET half == Len(arrays) \div 2
         IN Flatten(SubSeq(arrays, 1, half))
              \o Flatten(SubSeq(arrays, half + 1, Len(arrays)))

\* String.prototype.startsWith
StartsWith(s, prefix) ==
    /\ Len(s) >= Len(prefix)
    /\ SubSeq(s, 1, Len(prefix)) = prefix

\* String.prototype.split with a one-character separator: the pieces of s
\* between the occurrences of sep, in order; "" gives [""].
Split(s, sep) ==
    LET cuts == {i \in 1..Len(s) : s[i] = sep[1]} \cup {Len(s) + 1}
        \* the k-th cut, and the cut before it (0 before the first)
        Cut(k) == CHOOSE c \in cuts : Cardinality({x \in cuts : x < c}) = k - 1
        Prev(k) == IF k = 1 THEN 0 ELSE Cut(k - 1)
    IN [k \in 1..Cardinality(cuts) |-> SubSeq(s, Prev(k) + 1, Cut(k) - 1)]

\* Array.prototype.join
Join(parts, sep) ==
    Flatten([k \in 1..Len(parts) |->
                IF k = 1 THEN parts[k] ELSE sep \o parts[k]])

\* The white space String.prototype.trim removes (WhiteSpace and
\* LineTerminator of ECMAScript).
TrimSpace ==
    {9, 10, 11, 12, 13, 32, 160, 5760, 8232, 8233, 8239, 8287, 12288, 65279}
        \cup (8192..8202)

\* line.trim() !== ''
TrimNonEmpty(line) == \E i \in 1..Len(line) : line[i] \notin TrimSpace

\* Array.prototype.filter(line => line.trim() !== '')
FilterTrim(lines) == SelectSeq(lines, TrimNonEmpty)

\* Boolean(line) for a string: the empty string is the only falsy one.
Truthy(line) == line # <<>>

\* Array.prototype.filter(Boolean)
FilterBoolean(lines) == SelectSeq(lines, Truthy)

RECURSIVE UniqueFrom(_, _)
\* [...new Set(xs)]: insertion order, first occurrence kept.
UniqueFrom(xs, seen) ==
    IF xs = <<>> THEN <<>>
    ELSE IF Head(xs) \in seen THEN UniqueFrom(Tail(xs), seen)
    ELSE <<Head(xs)>> \o UniqueFrom(Tail(xs), seen \cup {Head(xs)})

Unique(xs) == UniqueFrom(xs, {})

(***************************************************************************)
(* A value or a thrown exception.                                          *)
(***************************************************************************)
Ok(v) == [ok |-> TRUE, v |-> v]
Threw == [ok |-> FALSE, v |-> <<>>]

(***************************************************************************)
(* btoa and atob of the Workers runtime (WHATWG forgiving-base64).         *)
(***************************************************************************)
B64Alphabet ==
    <<65, 66, 67, 68, 69, 70, 71, 72, 73, 74, 75, 76, 77, 78, 79, 80, 81, 82,
      83, 84, 85, 86, 87, 88, 89, 90, 97, 98, 99, 100, 101, 102, 103, 104,
      105, 106, 107, 108, 109, 110, 111, 112, 113, 114, 115, 116, 117, 118,
      119, 120, 121, 122, 48, 49, 50, 51, 52, 53, 54, 55, 56, 57, 43, 47>>

B64Char(i) == B64Alphabet[i + 1]

IsB64(c) == \E i \in 1..64 : B64Alphabet[i] = c

B64Index(c) == (CHOOSE i \in 1..64 : B64Alphabet[i] = c) - 1

\* Three bytes become four characters; a group of one or two bytes is padded.
B64Group(bytes) ==
    IF Len(bytes) = 1 THEN
        <<B64Char(bytes[1] \div 4), B64Char((bytes[1] % 4) * 16)>>
            \o PAD \o PAD
    ELSE IF Len(bytes) = 2 THEN
        <<B64Char(bytes[1] \div 4),
          B64Char((bytes[1] % 4) * 16 + bytes[2] \div 16),
          B64Char((bytes[2] % 16) * 4)>> \o PAD
    ELSE
        <<B64Char(bytes[1] \div 4),
          B64Char((bytes[1] % 4) * 16 + bytes[2] \div 16),
          B64Char((bytes[2] % 16) * 4 + bytes[3] \div 64),
          B64Char(bytes[3] % 64)>>

\* The k-th group of n elements of s (the last one may be shorter).
Group(s, n, k) ==
    SubSeq(s, n * (k - 1) + 1, IF n * k < Len(s) THEN n * k ELSE Len(s))

Groups(s, n) == [k \in 1..((Len(s) + n - 1) \div n) |-> Group(s, n, k)]

B64Encode(bytes) ==
    LET groups == Groups(bytes, 3)
    IN Flatten([k \in 1..Len(groups) |-> B64Group(groups[k])])

\* btoa: throws InvalidCharacterError on a code point above U+00FF.
Btoa(s) ==
    IF \E i \in 1..Len(s) : s[i] > 255 THEN Threw ELSE Ok(B64Encode(s))

\* ASCII white space, which atob removes before decoding.
AsciiSpace == {9, 10, 12, 13, 32}

NotAsciiSpace(c) == c \notin AsciiSpace

\* One or two trailing "=" are removed when the length is a multiple of 4.
StripPad(d) ==
    IF Len(d) % 4 # 0 \/ d = <<>> THEN d
    ELSE IF d[Len(d)] # PAD[1] THEN d
    ELSE IF d[Len(d) - 1] = PAD[1] THEN SubSeq(d, 1, Len(d) - 2)
    ELSE SubSeq(d, 1, Len(d) - 1)

\* Four characters become three bytes; a group of two or three characters
\* gives one or two bytes, its spare bits dropped.
B64Ungroup(d) ==
    LET a == B64Index(d[1])
        b == B64Index(d[2])
    IN IF Len(d) = 2 THEN <<a * 4 + b \div 16>>
       ELSE LET c == B64Index(d[3])
            IN IF Len(d) = 3
               THEN <<a * 4 + b \div 16, (b % 16) * 16 + c \div 4>>
               ELSE <<a * 4 + b \div 16,
                      (b % 16) * 16 + c \div 4,
                      (c % 4) * 64 + B64Index(d[4])>>

B64Decode(d) ==
    LET groups == Groups(d, 4)
    IN Flatten([k \in 1..Len(groups) |-> B64Ungroup(groups[k])])

\* atob: throws when a length of 4k+1 remains or a character is outside the
\* base64 alphabet.
Atob(s) ==
    LET d == StripPad(SelectSeq(s, NotAsciiSpace))
    IN IF Len(d) % 4 = 1 \/ (\E i \in 1..Len(d) : ~IsB64(d[i]))
       THEN Threw
       ELSE Ok(B64Decode(d))

(***************************************************************************)
(* A link of a group as JSON stores it: a string, or any other JSON value  *)
(* (saveGroup accepts every array).                                        *)
(***************************************************************************)
StrLink(s) == [isString |-> TRUE, s |-> s]
NonStringLink == [isString |-> FALSE, s |-> <<>>]

(***************************************************************************)
(* What the network gives a fetch: an exception, or a response with a      *)
(* status (ok or not) and a body text.                                     *)
(***************************************************************************)
NetException == [kind |-> "exception", ok |-> FALSE, text |-> <<>>]
NetResponse(ok, text) == [kind |-> "response", ok |-> ok, text |-> text]

\* fetchSubscriptionNodes(subUrl), net being what fetch(subUrl) does.  The
\* result is the resolved array, or Threw for a rejected promise.
fetchSubscriptionNodes(subUrl, net) ==
    IF ~subUrl.isString THEN Threw   \* subUrl.startsWith is not a function
    ELSE IF StartsWith(subUrl.s, STR_data) THEN
        LET parts == Split(subUrl.s, COMMA)
            base64Content == IF Len(parts) >= 2 THEN parts[2] ELSE STR_undefined
            decoded == Atob(base64Content)
        IN IF decoded.ok THEN Ok(Split(decoded.v, NL)) ELSE Ok(<<>>)
    ELSE IF net.kind = "exception" THEN Ok(<<>>)
    ELSE IF ~net.ok THEN Ok(<<>>)
    ELSE LET decoded == Atob(net.text)
         IN IF decoded.ok
            THEN Ok(FilterTrim(Split(decoded.v, NL)))
            ELSE Ok(FilterTrim(Split(net.text, NL)))

(***************************************************************************)
(* Text encoders used by parseXrayConfig.                                  *)
(***************************************************************************)
HexDigits == <<48, 49, 50, 51, 52, 53, 54, 55, 56, 57, 65, 66, 67, 68, 69, 70>>

\* A byte as two upper-case hexadecimal digits.
Hex2(b) == <<HexDigits[(b \div 16) + 1], HexDigits[(b % 16) + 1]>>

\* The UTF-8 bytes of a code point.
Utf8(cp) ==
    IF cp < 128 THEN <<cp>>
    ELSE IF cp < 2048 THEN <<192 + (cp \div 64), 128 + (cp % 64)>>
    ELSE IF cp < 65536
         THEN <<224 + (cp \div 4096), 128 + ((cp \div 64) % 64),
                128 + (cp % 64)>>
    ELSE <<240 + (cp \div 262144), 128 + ((cp \div 4096) % 64),
           128 + ((cp \div 64) % 64), 128 + (cp % 64)>>

\* "%XX" for every byte
PercentBytes(bytes) ==
    Flatten([k \in 1..Len(bytes) |-> <<37>> \o Hex2(bytes[k])])

AlphaNum == (48..57) \cup (65..90) \cup (97..122)

\* The characters encodeURIComponent leaves alone: A-Z a-z 0-9 - _ . ! ~ * ' ( )
UriUnreserved == AlphaNum \cup {45, 95, 46, 33, 126, 42, 39, 40, 41}

encodeURIComponent(s) ==
    Flatten([k \in 1..Len(s) |->
                IF s[k] \in UriUnreserved THEN <<s[k]>>
                ELSE PercentBytes(Utf8(s[k]))])

\* The characters the application/x-www-form-urlencoded serializer leaves
\* alone: A-Z a-z 0-9 * - . _ ; a space becomes "+".
FormUnreserved == AlphaNum \cup {42, 45, 46, 95}

FormEncode(s) ==
    Flatten([k \in 1..Len(s) |->
                IF s[k] \in FormUnreserved THEN <<s[k]>>
                ELSE IF s[k] = 32 THEN <<43>>
                ELSE PercentBytes(Utf8(s[k]))])

RECURSIVE ToDecimal(_)
\* String(n) for a non-negative integer.
ToDecimal(n) ==
    IF n < 10 THEN <<48 + n>> ELSE ToDecimal(n \div 10) \o <<48 + (n % 10)>>

\* A lower-case hexadecimal digit.
LowerHex(d) == IF d < 10 THEN 48 + d ELSE 87 + d

LowerHex2(b) == <<LowerHex(b \div 16), LowerHex(b % 16)>>

\* JSON.stringify's escape of one character.
JsonEscape(c) ==
    IF c = 34 THEN <<92, 34>>
    ELSE IF c = 92 THEN <<92, 92>>
    ELSE IF c = 8 THEN <<92, 98>>
    ELSE IF c = 9 THEN <<92, 116>>
    ELSE IF c = 10 THEN <<92, 110>>
    ELSE IF c = 12 THEN <<92, 102>>
    ELSE IF c = 13 THEN <<92, 114>>
    ELSE IF c < 32 THEN <<92, 117, 48, 48>> \o LowerHex2(c)
    ELSE <<c>>

JsonEscapeAll(s) == Flatten([k \in 1..Len(s) |-> JsonEscape(s[k])])

\* JSON.stringify of a string.
JsonString(s) == <<34>> \o JsonEscapeAll(s) \o <<34>>

\* a || b for strings: the empty (or missing) string is falsy.
OrElse(a, b) == IF a # <<>> THEN a ELSE b

(***************************************************************************)
(* parseXrayConfig.  A config text is represented by what JSON.parse makes *)
(* of it: kind "malformed" (JSON.parse throws), "noOutbounds" (no          *)
(* outbounds array) or "doc" with its outbounds.  An outbound is           *)
(*   [protocol, remark, hasVnext, vnext, network, security, wsPath,        *)
(*    wsHost, httpPath, httpHost]                                          *)
(* and a server of vnext is [remark, address, port, users]; a user is      *)
(* [id, hasAlterId, alterId, flow, encryption].  A missing string field    *)
(* is <<>>: the code reads every one of them through || or ?.              *)
(***************************************************************************)
\* JSON.stringify(vmess) of lines 95-107
VmessJson(outbound, server, remark) ==
    LET user == server.users[1]
    IN <<123, 34, 118, 34, 58, 34, 50, 34, 44, 34, 112, 115, 34, 58>>
         \o JsonString(OrElse(server.remark, remark))
         \o <<44, 34, 97, 100, 100, 34, 58>> \o JsonString(server.address)
         \o <<44, 34, 112, 111, 114, 116, 34, 58>> \o ToDecimal(server.port)
         \o <<44, 34, 105, 100, 34, 58>> \o JsonString(user.id)
         \o (IF user.hasAlterId
             THEN <<44, 34, 97, 105, 100, 34, 58>> \o ToDecimal(user.alterId)
             ELSE <<>>)
         \o <<44, 34, 110, 101, 116, 34, 58>>
         \o JsonString(OrElse(outbound.network, STR_tcp))
         \o <<44, 34, 116, 121, 112, 101, 34, 58, 34, 110, 111, 110, 101, 34,
              44, 34, 104, 111, 115, 116, 34, 58>>
         \o JsonString(OrElse(outbound.wsHost, outbound.httpHost))
         \o <<44, 34, 112, 97, 116, 104, 34, 58>>
         \o JsonString(OrElse(outbound.wsPath, outbound.httpPath))
         \o <<44, 34, 116, 108, 115, 34, 58>>
         \o JsonString(IF outbound.security = STR_tls THEN STR_tls ELSE <<>>)
         \o <<125>>

\* "vmess://" + btoa(JSON.stringify(vmess)), or Threw
VmessLink(outbound, server, remark) ==
    IF server.users = <<>> THEN Threw       \* server.users[0].id
    ELSE LET b == Btoa(VmessJson(outbound, server, remark))
         IN IF b.ok THEN Ok(STR_vmess \o b.v) ELSE Threw

\* new URLSearchParams({...}).toString() of lines 112-120
VlessParams(outbound, server) ==
    LET user == server.users[1]
    IN <<116, 121, 112, 101, 61>>
         \o FormEncode(OrElse(outbound.network, STR_tcp))
         \o <<38, 115, 101, 99, 117, 114, 105, 116, 121, 61>>
         \o FormEncode(OrElse(outbound.security, STR_none))
         \o <<38, 112, 97, 116, 104, 61>>
         \o FormEncode(encodeURIComponent(outbound.wsPath))
         \o <<38, 104, 111, 115, 116, 61>> \o FormEncode(outbound.wsHost)
         \o <<38, 102, 108, 111, 119, 61>> \o FormEncode(user.flow)
         \o <<38, 101, 110, 99, 114, 121, 112, 116, 105, 111, 110, 61>>
         \o FormEncode(OrElse(user.encryption, STR_none))

\* The vless:// template string of line 121, or Threw
VlessLink(outbound, server, remark) ==
    IF server.users = <<>> THEN Threw       \* server.users[0].flow
    ELSE Ok(STR_vless \o server.users[1].id \o <<64>> \o server.address
              \o <<58>> \o ToDecimal(server.port) \o <<63>>
              \o VlessParams(outbound, server) \o <<35>>
              \o encodeURIComponent(OrElse(server.remark, remark)))

\* The links one outbound pushes onto nodes, or Threw.
OutboundLinks(outbound) ==
    LET remark == OrElse(outbound.remark, STR_importedNode)
        links == [i \in 1..Len(outbound.vnext) |->
                    IF outbound.protocol = "vmess"
                    THEN VmessLink(outbound, outbound.vnext[i], remark)
                    ELSE VlessLink(outbound, outbound.vnext[i], remark)]
    IN IF outbound.protocol \notin {"vmess", "vless"} \/ ~outbound.hasVnext
       THEN Ok(<<>>)
       ELSE IF \E i \in 1..Len(links) : ~links[i].ok THEN Threw
       ELSE Ok([i \in 1..Len(links) |-> links[i].v])

\* parseXrayConfig(configStr): an exception anywhere inside the try block
\* makes the whole result [].
parseXrayConfig(config) ==
    IF config.kind # "doc" THEN <<>>
    ELSE LET per == [i \in 1..Len(config.outbounds) |->
                        OutboundLinks(config.outbounds[i])]
         IN IF \E i \in 1..Len(per) : ~per[i].ok THEN <<>>
            ELSE Flatten([i \in 1..Len(per) |-> per[i].v])

(***************************************************************************)
(* The state.                                                              *)
(*   kv          env.KV_NAMESPACE: a function from the keys present to     *)
(*               their values.  A value is what JSON.parse gives back for  *)
(*               the stored text (JSON.stringify followed by JSON.parse    *)
(*               keeps strings, and keeps a non-string link a non-string). *)
(*   req         per request slot, the request being served and the        *)
(*               handler's position and locals                             *)
(*   resp        per request slot, the response returned to the client     *)
(*   uuidCount   how many ids crypto.randomUUID() has handed out           *)
(*   raced       history: the kinds of overwrite a batchImport's put has   *)
(*               made of a value other than the one it read                *)
(*   xray        a config text under import and parseXrayConfig's result   *)
(*   nav         a navigation of the admin panel's router                  *)
(***************************************************************************)
VARIABLES kv, req, resp, uuidCount, raced, xray, nav

vars == <<kv, req, resp, uuidCount, raced, xray, nav>>

(***************************************************************************)
(* The KV namespace.                                                       *)
(***************************************************************************)
ConfigKey == <<"CONFIG">>
\* `SUBS_GROUP:${groupId}`
GroupKey(id) == <<"SUBS_GROUP:", id>>

EmptyStore == [k \in {} |-> 0]
\* get(key) is null when the key is absent
KvHas(store, k) == k \in DOMAIN store
KvPut(store, k, v) ==
    [x \in DOMAIN store \cup {k} |-> IF x = k THEN v ELSE store[x]]
KvDelete(store, k) == [x \in DOMAIN store \ {k} |-> store[x]]
\* list({ prefix: 'SUBS_GROUP:' }): the ids of the stored groups
KvListGroups(store) == {k[2] : k \in {x \in DOMAIN store : x[1] = "SUBS_GROUP:"}}

\* {}: a config with every field undefined
NoConfig == [password |-> "", subPath |-> "", adminPath |-> ""]
\* configStr ? JSON.parse(configStr) : {}
LoadConfig(store) == IF KvHas(store, ConfigKey) THEN store[ConfigKey] ELSE NoConfig

NoGroup == [name |-> "", links |-> <<>>]

(***************************************************************************)
(* Requests.  segs is url.pathname.split('/').filter(Boolean); slash says  *)
(* whether the pathname ends with "/".  The Authorization header is given  *)
(* by its first seven characters and the rest.                             *)
(***************************************************************************)
NoAuth == [present |-> FALSE, scheme |-> "", token |-> ""]
Bearer(t) == [present |-> TRUE, scheme |-> "Bearer ", token |-> t]

MalformedConfig == [kind |-> "malformed", outbounds |-> <<>>]

\* {}: a body with every field undefined
EmptyBody ==
    [valid |-> TRUE, password |-> "", subPath |-> "", adminPath |-> "",
     oldPassword |-> "", id |-> "", name |-> "", linksIsArray |-> FALSE,
     links |-> <<>>, groupId |-> "", xrayConfig |-> MalformedConfig]

Request(segs, slash, auth, method, body) ==
    [segs |-> segs, slash |-> slash, auth |-> auth, method |-> method,
     body |-> body]

NoRequest == Request(<<>>, FALSE, NoAuth, "GET", EmptyBody)

\* url.pathname.endsWith('/' + name)
PathEndsWith(in, name) ==
    /\ ~in.slash
    /\ in.segs # <<>>
    /\ in.segs[Len(in.segs)] = name

\* The body handleAdminApi works with: {} unless the method is POST.
BodyOf(in) == IF in.method = "POST" THEN in.body ELSE EmptyBody

(***************************************************************************)
(* Responses.                                                              *)
(***************************************************************************)
NoHeaders == [h \in {} |-> <<>>]
TextHeaders == [h \in {"Content-Type"} |-> <<"text/plain; charset=utf-8">>]
JsonHeaders == [h \in {"Content-Type"} |-> <<"application/json">>]
\* The headers of lines 162-167, each value as its comma-separated list.
FeedHeaders ==
    [h \in {"Content-Type", "Cache-Control", "Pragma", "Expires"} |->
        IF h = "Content-Type" THEN <<"text/plain; charset=utf-8">>
        ELSE IF h = "Cache-Control"
             THEN <<"no-store", "no-cache", "must-revalidate", "proxy-revalidate">>
        ELSE IF h = "Pragma" THEN <<"no-cache">>
        ELSE <<"0">>]

\* new Response(body, { status, headers }); success, message and data are the
\* fields of a JSON body, threw marks an exception that left onRequest.
Response(status, headers, body) ==
    [status |-> status, headers |-> headers, body |-> body,
     success |-> FALSE, message |-> "", data |-> <<>>, threw |-> FALSE]

JsonResponse(status, success, message, data) ==
    [status |-> status, headers |-> JsonHeaders, body |-> <<>>,
     success |-> success, message |-> message, data |-> data, threw |-> FALSE]

\* An exception no handler catches: the platform answers with an error page.
Uncaught ==
    [status |-> 500, headers |-> NoHeaders, body |-> <<>>,
     success |-> FALSE, message |-> "", data |-> <<>>, threw |-> TRUE]

NoResponse == Response(0, NoHeaders, <<>>)

\* 'Group ID is required.'
STR_groupIdRequired ==
    <<71, 114, 111, 117, 112, 32, 73, 68, 32, 105, 115, 32, 114, 101, 113,
      117, 105, 114, 101, 100, 46>>
\* '// Group not found or has no subscriptions.'
STR_groupNotFound ==
    <<47, 47, 32, 71, 114, 111, 117, 112, 32, 110, 111, 116, 32, 102, 111,
      117, 110, 100, 32, 111, 114, 32, 104, 97, 115, 32, 110, 111, 32, 115,
      117, 98, 115, 99, 114, 105, 112, 116, 105, 111, 110, 115, 46>>
\* '// Error processing group: ', followed by the exception's message
STR_errorProcessing ==
    <<47, 47, 32, 69, 114, 114, 111, 114, 32, 112, 114, 111, 99, 101, 115,
      115, 105, 110, 103, 32, 103, 114, 111, 117, 112, 58, 32>>
\* 'Not Found'
STR_notFound == <<78, 111, 116, 32, 70, 111, 117, 110, 100>>

(***************************************************************************)
(* checkAuth(request, env), store being the namespace when it reads CONFIG.*)
(***************************************************************************)
AuthOk == [success |-> TRUE, message |-> "", status |-> 200]
AuthFail(message, status) ==
    [success |-> FALSE, message |-> message, status |-> status]

checkAuth(in, store) ==
    LET savedPassword == LoadConfig(store).password
    IN IF savedPassword = "" THEN
           IF PathEndsWith(in, "getConfig") \/ PathEndsWith(in, "saveConfig")
           THEN AuthOk
           ELSE AuthFail("Not configured yet.", 403)
       ELSE IF ~in.auth.present \/ in.auth.scheme # "Bearer "
            THEN AuthFail("Authorization header is missing.", 401)
       ELSE IF in.auth.token # savedPassword
            THEN AuthFail("Invalid token.", 401)
       ELSE AuthOk

(***************************************************************************)
(* handleSubscription, lines 149-172: the response once every fetch has    *)
(* settled.  results[i] is the settled promise of link i.                  *)
(***************************************************************************)
\* await Promise.all(allNodesPromises): the arrays in link order, or Threw
PromiseAll(results) ==
    IF \E i \in 1..Len(results) : ~results[i].ok THEN Threw
    ELSE Ok([i \in 1..Len(results) |-> results[i].v])

\* [...new Set([].concat(...allNodesArrays).filter(Boolean))]
UniqueNodes(allNodesArrays) == Unique(FilterBoolean(Flatten(allNodesArrays)))

SubscriptionResponse(results) ==
    LET allNodesArrays == PromiseAll(results)
        body == Btoa(Join(UniqueNodes(allNodesArrays.v), NL))
    IN IF ~allNodesArrays.ok \/ ~body.ok
       THEN Response(500, NoHeaders, STR_errorProcessing)
       ELSE Response(200, FeedHeaders, body.v)

(***************************************************************************)
(* A request slot: the request, which handler serves it, and the locals    *)
(* that live across its awaits.                                            *)
(*   pc       idle, route (onRequest awaits CONFIG), sub and fetch          *)
(*            (handleSubscription), auth, config, exec, exec2 and put       *)
(*            (handleAdminApi), done                                        *)
(*   gate     the password checkAuth read (history, "" when none)           *)
(*   config   the config read at line 195                                   *)
(*   group    handleSubscription's or batchImport's groupData               *)
(*   keys     getGroups' list.keys                                          *)
(*   results  per link, the promise of fetchSubscriptionNodes               *)
(***************************************************************************)
Idle ==
    [pc |-> "idle", in |-> NoRequest, handler |-> "", action |-> "",
     groupId |-> "", gate |-> "", config |-> NoConfig, group |-> NoGroup,
     keys |-> {}, results |-> <<>>]

Pending == [done |-> FALSE, ok |-> TRUE, v |-> <<>>]
Settled(r) == [done |-> TRUE, ok |-> r.ok, v |-> r.v]

\* The slot once the response is out: only what the request was stays.
Done(r) ==
    [Idle EXCEPT !.pc = "done", !.in = r.in, !.handler = r.handler,
                 !.action = r.action, !.groupId = r.groupId, !.gate = r.gate]

\* The slot's handler returns response.
Respond(s, r, response) ==
    /\ req' = [req EXCEPT ![s] = Done(r)]
    /\ resp' = [resp EXCEPT ![s] = response]

\* crypto.randomUUID(): the n-th id handed out.
UuidNames == <<"uuid1", "uuid2", "uuid3", "uuid4">>
MaxUuids == 1
\* The longest link list a batchImport is still started on.
MaxLinks == 2

\* A request that will call crypto.randomUUID() if it gets that far.
NeedsUuid(in) ==
    /\ \E i \in 1..Len(in.segs) : in.segs[i] = "saveGroup"
    /\ BodyOf(in).id = ""

IsBatchImport(in) == \E i \in 1..Len(in.segs) : in.segs[i] = "batchImport"

InFlight(s) == req[s].pc \notin {"idle", "done"}

\* A request arrives in a free slot.  Arrivals that would take the model
\* past its bounds are not started.
Arrive(s, in) ==
    /\ ~InFlight(s)
    /\ NeedsUuid(in) =>
         uuidCount + Cardinality({t \in DOMAIN req :
                                    InFlight(t) /\ NeedsUuid(req[t].in)})
           < MaxUuids
    /\ IsBatchImport(in) /\ KvHas(kv, GroupKey(BodyOf(in).groupId)) =>
         Len(kv[GroupKey(BodyOf(in).groupId)].links) < MaxLinks
    /\ req' = [req EXCEPT ![s] = [Idle EXCEPT !.pc = "route", !.in = in]]
    /\ resp' = [resp EXCEPT ![s] = NoResponse]
    /\ UNCHANGED <<kv, uuidCount, raced, xray, nav>>

\* a || b for the strings compared by equality
OrDefault(a, b) == IF a # "" THEN a ELSE b

\* onRequest, lines 288-317: CONFIG is read, then the path is routed.
OnRequest(s) ==
    /\ req[s].pc = "route"
    /\ LET r == req[s]
           config == LoadConfig(kv)
           subPath == OrDefault(config.subPath, "sub")
           adminPath == OrDefault(config.adminPath, "admin")
           pathSegments == r.in.segs
       IN IF Len(pathSegments) > 1 /\ pathSegments[1] = subPath
          THEN /\ req' = [req EXCEPT ![s] =
                            [r EXCEPT !.pc = "sub", !.handler = "sub",
                                      !.groupId = pathSegments[2]]]
               /\ UNCHANGED resp
          ELSE IF /\ Len(pathSegments) > 2
                  /\ pathSegments[1] = adminPath
                  /\ pathSegments[2] = "api"
          THEN /\ req' = [req EXCEPT ![s] =
                            [r EXCEPT !.pc = "auth", !.handler = "admin",
                                      !.action = pathSegments[3]]]
               /\ UNCHANGED resp
          ELSE Respond(s, r, Response(404, NoHeaders, STR_notFound))
    /\ UNCHANGED <<kv, uuidCount, raced, xray, nav>>

(***************************************************************************)
(* handleSubscription.                                                     *)
(***************************************************************************)
\* A lookup that also reports a stored group without links as missing: the
\* behaviour claim C4 rules out.
SubNotFoundOrEmpty(store, groupId) ==
    \/ ~KvHas(store, GroupKey(groupId))
    \/ store[GroupKey(groupId)].links = <<>>

\* !groupDataStr of line 145: get gave null
SubNotFound(store, groupId) == ~KvHas(store, GroupKey(groupId))

\* A link whose fetchSubscriptionNodes awaits the network.
IsRemote(link) == link.isString /\ ~StartsWith(link.s, STR_data)

\* subLinks.map(link => fetchSubscriptionNodes(link)): each call runs to its
\* first await, so a data: link and a non-string link are settled at once.
Launch(link) ==
    IF IsRemote(link) THEN Pending
    ELSE Settled(fetchSubscriptionNodes(link, NetException))

\* Lines 140-153: the group is read and the fetches are launched.
SubGet(s) ==
    /\ req[s].pc = "sub"
    /\ LET r == req[s]
       IN IF r.groupId = ""
          THEN Respond(s, r, Response(400, NoHeaders, STR_groupIdRequired))
          ELSE IF SubNotFound(kv, r.groupId)
          THEN Respond(s, r, Response(404, TextHeaders, STR_groupNotFound))
          ELSE LET groupData == kv[GroupKey(r.groupId)]
                   subLinks == groupData.links
               IN /\ req' = [req EXCEPT ![s] =
                               [r EXCEPT !.pc = "fetch", !.group = groupData,
                                         !.results =
                                            [i \in 1..Len(subLinks) |->
                                                Launch(subLinks[i])]]]
                  /\ UNCHANGED resp
    /\ UNCHANGED <<kv, uuidCount, raced, xray, nav>>

\* The fetch of link i settles, net being what the network did.
FetchDone(s, i, net) ==
    /\ req[s].pc = "fetch"
    /\ i \in 1..Len(req[s].results)
    /\ ~req[s].results[i].done
    /\ req' = [req EXCEPT ![s].results[i] =
                 Settled(fetchSubscriptionNodes(req[s].group.links[i], net))]
    /\ UNCHANGED <<kv, resp, uuidCount, raced, xray, nav>>

\* Promise.all settles: every fetch fulfilled, or one rejected.
SubRespond(s) ==
    /\ req[s].pc = "fetch"
    /\ LET results == req[s].results
       IN /\ \/ \A i \in 1..Len(results) : results[i].done
             \/ \E i \in 1..Len(results) : results[i].done /\ ~results[i].ok
          /\ Respond(s, req[s], SubscriptionResponse(results))
    /\ UNCHANGED <<kv, uuidCount, raced, xray, nav>>

(***************************************************************************)
(* handleAdminApi.                                                         *)
(***************************************************************************)
\* `${id}` of an undefined id
IdString(id) == IF id = "" THEN "undefined" ELSE id

\* Lines 180-192: the auth check, then the body.
CheckAuth(s) ==
    /\ req[s].pc = "auth"
    /\ LET r == req[s]
           authResult == checkAuth(r.in, kv)
       IN IF ~authResult.success
          THEN Respond(s, r, JsonResponse(authResult.status, FALSE,
                                          authResult.message, <<>>))
          ELSE IF r.in.method = "POST" /\ ~r.in.body.valid
          THEN Respond(s, [r EXCEPT !.gate = LoadConfig(kv).password],
                       JsonResponse(400, FALSE, "Invalid JSON body", <<>>))
          ELSE /\ req' = [req EXCEPT ![s] =
                            [r EXCEPT !.pc = "config",
                                      !.gate = LoadConfig(kv).password]]
               /\ UNCHANGED resp
    /\ UNCHANGED <<kv, uuidCount, raced, xray, nav>>

AdminActions ==
    {"login", "saveConfig", "getConfig", "getGroups", "getGroupDetails",
     "saveGroup", "deleteGroup", "batchImport"}

\* Lines 195-196 and the part of the switch that runs before the action's
\* first await.
ReadConfig(s) ==
    /\ req[s].pc = "config"
    /\ LET r == req[s]
           config == LoadConfig(kv)
           body == BodyOf(r.in)
           go == [r EXCEPT !.pc = "exec", !.config = config]
       IN CASE r.action = "login" ->
                 /\ Respond(s, r, JsonResponse(200, TRUE, "Login successful", <<>>))
                 /\ UNCHANGED uuidCount
            [] r.action = "saveConfig" ->
                 /\ IF config.password # "" /\ config.password # body.oldPassword
                    THEN Respond(s, r, JsonResponse(403, FALSE,
                                                    "wrong old password", <<>>))
                    ELSE IF body.password = "" \/ body.subPath = ""
                              \/ body.adminPath = ""
                    THEN Respond(s, r, JsonResponse(400, FALSE,
                                                    "all fields are required", <<>>))
                    ELSE req' = [req EXCEPT ![s] = go] /\ UNCHANGED resp
                 /\ UNCHANGED uuidCount
            [] r.action = "saveGroup" ->
                 IF body.name = "" \/ ~body.linksIsArray
                 THEN /\ Respond(s, r, JsonResponse(400, FALSE,
                                                    "Invalid group data", <<>>))
                      /\ UNCHANGED uuidCount
                 ELSE IF body.id # ""
                 THEN /\ req' = [req EXCEPT ![s] = [go EXCEPT !.groupId = body.id]]
                      /\ UNCHANGED <<resp, uuidCount>>
                 ELSE /\ req' = [req EXCEPT ![s] =
                                   [go EXCEPT !.groupId = UuidNames[uuidCount + 1]]]
                      /\ uuidCount' = uuidCount + 1
                      /\ UNCHANGED resp
            [] r.action \in {"getGroupDetails", "deleteGroup"} ->
                 /\ req' = [req EXCEPT ![s] =
                              [go EXCEPT !.groupId = IdString(body.id)]]
                 /\ UNCHANGED <<resp, uuidCount>>
            [] r.action = "batchImport" ->
                 /\ req' = [req EXCEPT ![s] =
                              [go EXCEPT !.groupId = IdString(body.groupId)]]
                 /\ UNCHANGED <<resp, uuidCount>>
            [] r.action \in {"getConfig", "getGroups"} ->
                 /\ req' = [req EXCEPT ![s] = go]
                 /\ UNCHANGED <<resp, uuidCount>>
            [] r.action \notin AdminActions ->
                 /\ Respond(s, r, JsonResponse(404, FALSE,
                                               "Unknown API action", <<>>))
                 /\ UNCHANGED uuidCount
    /\ UNCHANGED <<kv, raced, xray, nav>>

\* Lines 270-271: the data URI of the imported nodes, or Threw.
ImportedDataUrl(nodes) ==
    LET importedNodesContent == Btoa(Join(nodes, NL))
    IN IF importedNodesContent.ok
       THEN Ok(StrLink(STR_dataUrlPrefix \o importedNodesContent.v))
       ELSE Threw

\* A write that goes through only when the stored group is still the one
\* that was read: the concurrency control claim C9 says is absent.
BatchImportWriteIfUnchanged(store, groupId, groupData) ==
    IF /\ KvHas(store, GroupKey(groupId))
       /\ store[GroupKey(groupId)].name = groupData.name
       /\ store[GroupKey(groupId)].links
            = SubSeq(groupData.links, 1, Len(groupData.links) - 1)
    THEN KvPut(store, GroupKey(groupId), groupData)
    ELSE store

\* Line 276: the group is written back under its key.
BatchImportWrite(store, groupId, groupData) ==
    KvPut(store, GroupKey(groupId), groupData)

\* The action's first KV operation and what follows it up to the next await.
\* (A batchImport is not taken past a list of MaxLinks links: the lists of
\* the model stay bounded.)
Exec(s) ==
    /\ req[s].pc = "exec"
    /\ req[s].action = "batchImport" /\ KvHas(kv, GroupKey(req[s].groupId)) =>
         Len(kv[GroupKey(req[s].groupId)].links) <= MaxLinks
    /\ LET r == req[s]
           body == BodyOf(r.in)
           key == GroupKey(r.groupId)
       IN CASE r.action = "saveConfig" ->
                 /\ kv' = KvPut(kv, ConfigKey,
                                [password |-> body.password,
                                 subPath |-> body.subPath,
                                 adminPath |-> body.adminPath])
                 /\ Respond(s, r, JsonResponse(200, TRUE, "config saved", <<>>))
            [] r.action = "getConfig" ->
                 \* data: config without its password, and the body's
                 \* top-level isConfigured
                 /\ Respond(s, r, JsonResponse(200, TRUE, "",
                        [subPath |-> r.config.subPath,
                         adminPath |-> r.config.adminPath,
                         isConfigured |-> KvHas(kv, ConfigKey)]))
                 /\ UNCHANGED kv
            [] r.action = "getGroups" ->
                 /\ req' = [req EXCEPT ![s] =
                              [r EXCEPT !.pc = "exec2", !.keys = KvListGroups(kv)]]
                 /\ UNCHANGED <<kv, resp>>
            [] r.action = "getGroupDetails" ->
                 /\ IF ~KvHas(kv, key)
                    THEN Respond(s, r, JsonResponse(404, FALSE, "Group not found", <<>>))
                    ELSE Respond(s, r, JsonResponse(200, TRUE, "", kv[key]))
                 /\ UNCHANGED kv
            [] r.action = "saveGroup" ->
                 /\ kv' = KvPut(kv, key, [name |-> body.name, links |-> body.links])
                 /\ Respond(s, r, JsonResponse(200, TRUE, "Group saved", r.groupId))
            [] r.action = "deleteGroup" ->
                 /\ kv' = KvDelete(kv, key)
                 /\ Respond(s, r, JsonResponse(200, TRUE, "Group deleted", <<>>))
            [] r.action = "batchImport" ->
                 /\ IF ~KvHas(kv, key)
                    THEN Respond(s, r, JsonResponse(404, FALSE, "Group not found", <<>>))
                    ELSE LET nodes == parseXrayConfig(body.xrayConfig)
                             dataUrl == ImportedDataUrl(nodes)
                             groupData == kv[key]
                         IN IF Len(nodes) = 0
                            THEN Respond(s, r, JsonResponse(400, FALSE,
                                                 "no valid nodes found", <<>>))
                            ELSE IF ~dataUrl.ok
                            THEN Respond(s, r, Uncaught)
                            ELSE /\ req' = [req EXCEPT ![s] =
                                      [r EXCEPT !.pc = "put", !.group =
                                         [groupData EXCEPT !.links =
                                             Append(@, dataUrl.v)]]]
                                 /\ UNCHANGED resp
                 /\ UNCHANGED kv
    /\ UNCHANGED <<uuidCount, raced, xray, nav>>

\* Lines 227-238 of getGroups: the value of every listed key is read; a key
\* deleted since the list gives null, which the catch turns into no entry.
Exec2(s) ==
    /\ req[s].pc = "exec2"
    /\ LET r == req[s]
           groups == {[id |-> id, name |-> kv[GroupKey(id)].name,
                       linkCount |-> Len(kv[GroupKey(id)].links)] :
                        id \in {k \in r.keys : KvHas(kv, GroupKey(k))}}
       IN Respond(s, r, JsonResponse(200, TRUE, "", groups))
    /\ UNCHANGED <<kv, uuidCount, raced, xray, nav>>

\* The link a finished, successful batchImport of slot t appended.
ImportedBy(t) ==
    ImportedDataUrl(parseXrayConfig(BodyOf(req[t].in).xrayConfig)).v

\* What the put of slot s overwrites that it never read: a group deleted
\* since its get, or the link of another batchImport answered since.
RacesOf(s) ==
    LET r == req[s]
        key == GroupKey(r.groupId)
    IN (IF ~KvHas(kv, key) THEN {"resurrected"} ELSE {})
       \cup
       (IF /\ KvHas(kv, key)
           /\ \E t \in DOMAIN req \ {s} :
                /\ req[t].pc = "done"
                /\ req[t].action = "batchImport"
                /\ req[t].groupId = r.groupId
                /\ resp[t].status = 200
                /\ \E i \in 1..Len(kv[key].links) :
                      kv[key].links[i] = ImportedBy(t)
                /\ \A i \in 1..Len(r.group.links) :
                      r.group.links[i] # ImportedBy(t)
        THEN {"lostUpdate"} ELSE {})

\* Lines 276-277 of batchImport: the put and the answer.
Put(s) ==
    /\ req[s].pc = "put"
    /\ kv' = BatchImportWrite(kv, req[s].groupId, req[s].group)
    /\ raced' = raced \cup RacesOf(s)
    /\ Respond(s, req[s], JsonResponse(200, TRUE, "nodes imported",
                                       Len(parseXrayConfig(
                                             BodyOf(req[s].in).xrayConfig))))
    /\ UNCHANGED <<uuidCount, xray, nav>>

(***************************************************************************)
(* parseXrayConfig applied to a config text.                               *)
(***************************************************************************)
XrayIdle == [pc |-> "idle", config |-> MalformedConfig, nodes |-> <<>>]

XrayParse ==
    /\ xray.pc = "ready"
    /\ xray' = [xray EXCEPT !.pc = "parsed",
                            !.nodes = parseXrayConfig(xray.config)]
    /\ UNCHANGED <<kv, req, resp, uuidCount, raced, nav>>

(***************************************************************************)
(* The admin panel's router.  A navigation runs the global beforeEach      *)
(* guard, then the beforeEnter guard of the "/" record when that record is *)
(* entered; a guard's next({ name }) starts the navigation over with the   *)
(* new target, and a target equal to the current route ends it (vue-router *)
(* reports a duplicated navigation).                                       *)
(*   at      the current route, START before the first navigation settles  *)
(*   to      the target; trail: the targets of this navigation so far      *)
(*   status  what fetch('/api/getConfig') reports during this navigation   *)
(*   token   whether localStorage holds a (non-empty) auth_token           *)
(***************************************************************************)
Routes == {"Login", "Setup", "Dashboard", "GroupDetails", "Settings"}
\* The children of the "/" record, which carries beforeEnter.
LayoutRoutes == {"Dashboard", "GroupDetails", "Settings"}
ConfigStatuses == {"configured", "unconfigured", "failed"}

\* The redirects one navigation may take in the model.
MaxHops == 6

NavIdle ==
    [pc |-> "rest", at |-> "START", to |-> "START", status |-> "failed",
     token |-> FALSE, trail |-> <<>>]

\* router.beforeEach, lines 35-64: the route name passed to next, or "next"
\* for next().
beforeEach(to, status, token) ==
    IF status = "failed"
    THEN IF to # "Setup" THEN "Setup" ELSE "next"
    ELSE LET isConfigured == status = "configured"
         IN IF ~isConfigured /\ to # "Setup" THEN "Setup"
            ELSE IF isConfigured /\ to = "Setup" THEN "Login"
            ELSE IF token /\ (to = "Login" \/ to = "Setup") THEN "Dashboard"
            ELSE "next"

\* beforeEnter of the "/" record, lines 19-25
beforeEnter(token) == IF ~token THEN "Login" ELSE "next"

\* The user (or the page load) starts a navigation.
NavStart(target, status, token) ==
    /\ nav.pc = "rest"
    /\ target # nav.at
    /\ nav' = [nav EXCEPT !.pc = "beforeEach", !.to = target,
                          !.status = status, !.token = token,
                          !.trail = <<target>>]
    /\ UNCHANGED <<kv, req, resp, uuidCount, raced, xray>>

\* next({ name: target }) inside a guard.
Redirect(target) ==
    IF target = nav.at
    THEN nav' = [nav EXCEPT !.pc = "rest", !.to = target,
                            !.trail = Append(@, target)]
    ELSE nav' = [nav EXCEPT !.pc = "beforeEach", !.to = target,
                            !.trail = Append(@, target)]

\* The global guard runs for the current target.
NavBeforeEach ==
    /\ nav.pc = "beforeEach"
    /\ LET decision == beforeEach(nav.to, nav.status, nav.token)
       IN IF decision # "next"
          THEN Len(nav.trail) <= MaxHops /\ Redirect(decision)
          ELSE IF nav.to \in LayoutRoutes /\ nav.at \notin LayoutRoutes
          THEN nav' = [nav EXCEPT !.pc = "beforeEnter"]
          ELSE nav' = [nav EXCEPT !.pc = "rest", !.at = nav.to]
    /\ UNCHANGED <<kv, req, resp, uuidCount, raced, xray>>

\* The "/" record is entered: its guard runs.
NavBeforeEnter ==
    /\ nav.pc = "beforeEnter"
    /\ LET decision == beforeEnter(nav.token)
       IN IF decision # "next"
          THEN Len(nav.trail) <= MaxHops /\ Redirect(decision)
          ELSE nav' = [nav EXCEPT !.pc = "rest", !.at = nav.to]
    /\ UNCHANGED <<kv, req, resp, uuidCount, raced, xray>>

(***************************************************************************)
(* The inputs the model draws from.                                        *)
(***************************************************************************)
SeqsUpTo(S, n) == UNION {[1..k -> S] : k \in 0..n}

\* Response bodies of upstream feeds.
\* "a:1\nb:2\na:1": plain text with a duplicate
TXT_dup == <<97, 58, 49, 10, 98, 58, 50, 10, 97, 58, 49>>
\* "a:1\n \n\nb:2": plain text with a blank and an empty line
TXT_blank == <<97, 58, 49, 10, 32, 10, 10, 98, 58, 50>>
\* "b:2\nc:3", sent base64-encoded
TXT_bc == <<98, 58, 50, 10, 99, 58, 51>>
\* "节:1": plain text with a character above U+00FF
TXT_wide == <<33410, 58, 49>>

NetOutcomes ==
    {NetException, NetResponse(FALSE, <<>>), NetResponse(TRUE, TXT_dup),
     NetResponse(TRUE, TXT_blank), NetResponse(TRUE, Btoa(TXT_bc).v),
     NetResponse(TRUE, TXT_wide)}

\* Links of a saveGroup body.
\* "http://u1", "http://u2"
LINK_u1 == StrLink(<<104, 116, 116, 112, 58, 47, 47, 117, 49>>)
LINK_u2 == StrLink(<<104, 116, 116, 112, 58, 47, 47, 117, 50>>)
\* a data: link of "a:1\n \n\nb:2" and one of "a:1\nb:2\na:1"
LINK_dataBlank == StrLink(STR_dataUrlPrefix \o Btoa(TXT_blank).v)
LINK_dataDup == StrLink(STR_dataUrlPrefix \o Btoa(TXT_dup).v)
\* "data:zzz": a data: link without a comma
LINK_dataNoComma == StrLink(<<100, 97, 116, 97, 58, 122, 122, 122>>)

LinkLists ==
    {<<>>, <<LINK_u1>>, <<LINK_u1, LINK_u2>>, <<LINK_dataDup, LINK_u1>>,
     <<LINK_dataBlank>>, <<LINK_dataNoComma, LINK_u1>>, <<NonStringLink>>}

\* Xray configs.
\* "u1", "h.example", "节点.example", "节点", "/ws"
XUser ==
    [id |-> <<117, 49>>, hasAlterId |-> TRUE, alterId |-> 0, flow |-> <<>>,
     encryption |-> <<>>]
XServer(address, users) ==
    [remark |-> <<>>, address |-> address, port |-> 443, users |-> users]
SrvPlain == XServer(<<104, 46, 101, 120, 97, 109, 112, 108, 101>>, <<XUser>>)
SrvWide ==
    XServer(<<33410, 28857, 46, 101, 120, 97, 109, 112, 108, 101>>, <<XUser>>)
SrvNoUsers == XServer(<<104, 46, 101, 120, 97, 109, 112, 108, 101>>, <<>>)
XOutbound(protocol, remark, hasVnext, vnext) ==
    [protocol |-> protocol, remark |-> remark, hasVnext |-> hasVnext,
     vnext |-> vnext, network |-> <<>>, security |-> <<>>,
     wsPath |-> <<47, 119, 115>>, wsHost |-> <<>>, httpPath |-> <<>>,
     httpHost |-> <<>>]
XDoc(outbounds) == [kind |-> "doc", outbounds |-> outbounds]
XNoOutbounds == [kind |-> "noOutbounds", outbounds |-> <<>>]

MaxOutbounds == 2
MaxServers == 2

XRemarks == {<<>>, <<33410, 28857>>}

XOutbounds(maxServers) ==
    {XOutbound(p, r, TRUE, v) :
        p \in {"vmess", "vless", "trojan"}, r \in XRemarks,
        v \in SeqsUpTo({SrvPlain, SrvNoUsers}, maxServers)}
      \cup {XOutbound(p, <<>>, FALSE, <<>>) : p \in {"vmess", "vless"}}

XrayConfigs(maxOutbounds, maxServers) ==
    {MalformedConfig, XNoOutbounds}
      \cup {XDoc(o) : o \in SeqsUpTo(XOutbounds(maxServers), maxOutbounds)}

\* The configs batchImport requests carry: one vmess endpoint, one vless
\* endpoint, a vless endpoint whose address has characters above U+00FF,
\* and a text that is no JSON.
XCfgVmess == XDoc(<<XOutbound("vmess", <<>>, TRUE, <<SrvPlain>>)>>)
XCfgVless == XDoc(<<XOutbound("vless", <<>>, TRUE, <<SrvPlain>>)>>)
XCfgWide == XDoc(<<XOutbound("vless", <<>>, TRUE, <<SrvWide>>)>>)

\* Request bodies.
SaveConfigBody(password, subPath, oldPassword) ==
    [EmptyBody EXCEPT !.password = password, !.subPath = subPath,
                      !.adminPath = "admin", !.oldPassword = oldPassword]
SaveGroupBody(id, name, links) ==
    [EmptyBody EXCEPT !.id = id, !.name = name, !.linksIsArray = TRUE,
                      !.links = links]
IdBody(id) == [EmptyBody EXCEPT !.id = id]
BatchImportBody(groupId, xrayConfig) ==
    [EmptyBody EXCEPT !.groupId = groupId, !.xrayConfig = xrayConfig]

GroupIds == {"g1", "uuid1"}

BodiesOf(action) ==
    CASE action = "saveConfig" ->
            {SaveConfigBody("p1", "sub", ""), SaveConfigBody("p2", "sub", "p1"),
             SaveConfigBody("p1", "", "")}
      [] action = "saveGroup" ->
            {SaveGroupBody("g1", "n1", l) : l \in LinkLists}
              \cup {SaveGroupBody("", "n2", <<LINK_u1>>), IdBody("g1")}
      [] action \in {"deleteGroup", "getGroupDetails"} ->
            {IdBody(g) : g \in GroupIds}
      [] action = "batchImport" ->
            {BatchImportBody("g1", c) :
                c \in {XCfgVmess, XCfgWide, MalformedConfig}}
      [] OTHER -> {EmptyBody}

Auths == {NoAuth, Bearer("p1"), Bearer("p2")}

\* /admin/api/<action> and /admin/api/<action>/getConfig
AdminPaths(action) ==
    {<<"admin", "api", action>>, <<"admin", "api", action, "getConfig">>}

AdminRequests ==
    UNION {{Request(path, FALSE, auth, "POST", body) :
               path \in AdminPaths(a), auth \in Auths, body \in BodiesOf(a)} :
             a \in AdminActions \cup {"nope"}}

OtherRequests ==
    {Request(<<"sub", g>>, FALSE, NoAuth, "GET", EmptyBody) : g \in GroupIds}
      \cup
    {Request(<<"sub">>, FALSE, NoAuth, "GET", EmptyBody),
     Request(<<"admin", "api", "getConfig">>, FALSE, NoAuth, "GET", EmptyBody),
     Request(<<"admin", "api", "getConfig">>, TRUE, NoAuth, "GET", EmptyBody),
     Request(<<"admin", "api", "login">>, FALSE,
             [present |-> TRUE, scheme |-> "Basic p", token |-> "1"],
             "GET", EmptyBody),
     Request(<<"admin", "api", "saveGroup">>, FALSE, Bearer("p1"), "POST",
             [EmptyBody EXCEPT !.valid = FALSE])}

Requests == AdminRequests \cup OtherRequests

\* The requests of two clients working on group g1 at the same time.
RaceRequests ==
    {Request(<<"admin", "api", "deleteGroup">>, FALSE, Bearer("p1"), "POST",
             IdBody("g1")),
     Request(<<"admin", "api", "batchImport">>, FALSE, Bearer("p1"), "POST",
             BatchImportBody("g1", XCfgVmess)),
     Request(<<"admin", "api", "batchImport">>, FALSE, Bearer("p1"), "POST",
             BatchImportBody("g1", XCfgVless))}

Slots == {"a", "b"}

(***************************************************************************)
(* Specifications.  The worker starts from the empty namespace of a fresh *)
(* deployment; the two racing clients start once a group is stored.        *)
(***************************************************************************)
InitWorker ==
    /\ kv = EmptyStore
    /\ req = [s \in Slots |-> Idle]
    /\ resp = [s \in Slots |-> NoResponse]
    /\ uuidCount = 0
    /\ raced = {}

Init ==
    /\ InitWorker
    /\ xray = XrayIdle
    /\ nav = NavIdle

\* One client: requests are served one after the other.
Next ==
    \/ \E in \in Requests : Arrive("a", in)
    \/ OnRequest("a")
    \/ SubGet("a")
    \/ \E i \in 1..MaxLinks + 1, net \in NetOutcomes : FetchDone("a", i, net)
    \/ SubRespond("a")
    \/ CheckAuth("a")
    \/ ReadConfig("a")
    \/ Exec("a")
    \/ Exec2("a")
    \/ Put("a")

Spec == Init /\ [][Next]_vars

\* Two clients whose requests overlap.
NextRace ==
    \E s \in Slots :
        \/ \E in \in RaceRequests : Arrive(s, in)
        \/ OnRequest(s)
        \/ CheckAuth(s)
        \/ ReadConfig(s)
        \/ Exec(s)
        \/ Put(s)

\* The namespace once saveConfig has stored password p1 and saveGroup has
\* stored group g1 with an empty link list.
RaceStore ==
    KvPut(KvPut(EmptyStore, ConfigKey,
                [password |-> "p1", subPath |-> "sub", adminPath |-> "admin"]),
          GroupKey("g1"), [name |-> "n1", links |-> <<>>])

InitRace ==
    /\ kv = RaceStore
    /\ req = [s \in Slots |-> Idle]
    /\ resp = [s \in Slots |-> NoResponse]
    /\ uuidCount = 0
    /\ raced = {}
    /\ xray = XrayIdle
    /\ nav = NavIdle

SpecRace == InitRace /\ [][NextRace]_vars

\* parseXrayConfig on every config of the pool.
InitXray ==
    /\ InitWorker
    /\ nav = NavIdle
    /\ xray \in {[pc |-> "ready", config |-> c, nodes |-> <<>>] :
                    c \in XrayConfigs(MaxOutbounds, MaxServers)}

NextXray == XrayParse

SpecXray == InitXray /\ [][NextXray]_vars

\* The router.
NextNav ==
    \/ \E target \in Routes, status \in ConfigStatuses, token \in BOOLEAN :
          NavStart(target, status, token)
    \/ NavBeforeEach
    \/ NavBeforeEnter

SpecNav == Init /\ [][NextNav]_vars

(***************************************************************************)
(* The claims.                                                             *)
(***************************************************************************)
\* The entries of a subscription response: its body base64-decoded and split
\* on newline.  An empty body, and a response that is no success, has none.
OutputEntries(response) ==
    LET decoded == Atob(response.body)
    IN IF response.status # 200 \/ ~decoded.ok \/ decoded.v = <<>>
       THEN <<>>
       ELSE Split(decoded.v, NL)

\* The step in which handleSubscription answers after its fetches.
SubResponds(s) == req[s].pc = "fetch" /\ req'[s].pc = "done"

\* The per-link entry sequences concatenated in link order; a link whose
\* fetch failed or has not settled has no entry.
LinkEntries(results) ==
    Flatten([i \in 1..Len(results) |->
                IF results[i].done /\ results[i].ok THEN results[i].v
                ELSE <<>>])

Elements(seq) == {seq[i] : i \in 1..Len(seq)}

\* The index of the first occurrence of e in seq.
FirstAt(seq, e) ==
    CHOOSE i \in 1..Len(seq) : seq[i] = e /\ \A j \in 1..(i - 1) : seq[j] # e

\* C1: whenever the subscription handler answers, its output holds exactly
\* the distinct non-empty entries of the links, each once, in the order of
\* their first occurrence in the link-order concatenation of the per-link
\* entry sequences (so the order in which the fetches completed plays no
\* part).
C1_EntriesOnceInFirstOccurrenceOrder ==
    [][\A s \in Slots :
          SubResponds(s) =>
            LET all == LinkEntries(req[s].results)
                out == OutputEntries(resp'[s])
            IN /\ Elements(out) = Elements(all) \ {<<>>}
               /\ \A i, j \in 1..Len(out) :
                     i < j => FirstAt(all, out[i]) < FirstAt(all, out[j])]_vars

\* C2: no entry of a subscription output is an empty line or a line of
\* whitespace only, whatever the links (remote or data:) and payloads were.
C2_NoBlankEntry ==
    \A s \in Slots :
        req[s].pc = "done" /\ req[s].handler = "sub" =>
            \A i \in 1..Len(OutputEntries(resp[s])) :
                TrimNonEmpty(OutputEntries(resp[s])[i])

\* C3: for a stored group, whatever its links and whatever each fetch did,
\* the subscription handler answers with a success response whose entries
\* are the deduplicated entries of the links that succeeded; a failing link
\* contributes nothing and never makes the answer an error.
C3_FailingLinkNeverFailsAggregation ==
    [][\A s \in Slots :
          SubResponds(s) =>
            LET out == OutputEntries(resp'[s])
            IN /\ resp'[s].status = 200
               /\ Elements(out) = Elements(LinkEntries(req[s].results)) \ {<<>>}
               /\ Cardinality(Elements(out)) = Len(out)]_vars

\* A subscription request that handleSubscription has answered.
SubAnswered(s) == req[s].pc = "done" /\ req[s].handler = "sub"

\* C4: a subscription request for group g is answered not-found exactly when
\* no group is stored under g; a stored group with an empty link list gets a
\* success response with empty output.
C4_NotFoundIffNotStored ==
    \A s \in Slots :
        SubAnswered(s) =>
            LET key == GroupKey(req[s].groupId)
            IN /\ resp[s].status = 404 <=> ~KvHas(kv, key)
               /\ KvHas(kv, key) /\ kv[key].links = <<>> =>
                     resp[s].status = 200 /\ resp[s].body = <<>>

\* C4's case: a stored group without links was requested and answered with
\* an empty success.
C4_Witness ==
    \E s \in Slots :
        /\ SubAnswered(s)
        /\ KvHas(kv, GroupKey(req[s].groupId))
        /\ kv[GroupKey(req[s].groupId)].links = <<>>
        /\ resp[s].status = 200
        /\ resp[s].body = <<>>

HasDirective(headers, name, directive) ==
    /\ name \in DOMAIN headers
    /\ \E i \in 1..Len(headers[name]) : headers[name][i] = directive

\* C5: every response of the subscription handler carries Cache-Control with
\* no-store, Pragma: no-cache and Expires: 0.
C5_EveryResponseDisablesCaching ==
    \A s \in Slots :
        SubAnswered(s) =>
            /\ HasDirective(resp[s].headers, "Cache-Control", "no-store")
            /\ HasDirective(resp[s].headers, "Pragma", "no-cache")
            /\ HasDirective(resp[s].headers, "Expires", "0")

\* The protocol tag of every server endpoint of the vmess and vless
\* outbounds, in outbound order then endpoint order.
Endpoints(config) ==
    Flatten([i \in 1..Len(config.outbounds) |->
                LET o == config.outbounds[i]
                IN IF o.protocol \in {"vmess", "vless"} /\ o.hasVnext
                   THEN [j \in 1..Len(o.vnext) |-> o.protocol]
                   ELSE <<>>])

\* Every endpoint of the config names a user.
EveryEndpointHasUser(config) ==
    \A i \in 1..Len(config.outbounds) :
        \A j \in 1..Len(config.outbounds[i].vnext) :
            config.outbounds[i].vnext[j].users # <<>>

\* C6: parseXrayConfig gives [] for a text that is malformed or has no
\* outbounds array, and otherwise (here: when every endpoint names a user)
\* one link per endpoint of the vmess and vless outbounds, in outbound then
\* endpoint order, each with the prefix of its outbound's protocol.
C6_OneLinkPerEndpoint ==
    xray.pc = "parsed" =>
        IF xray.config.kind # "doc" THEN xray.nodes = <<>>
        ELSE EveryEndpointHasUser(xray.config) =>
               LET endpoints == Endpoints(xray.config)
               IN /\ Len(xray.nodes) = Len(endpoints)
                  /\ \A k \in 1..Len(endpoints) :
                        StartsWith(xray.nodes[k],
                                   IF endpoints[k] = "vmess" THEN STR_vmess
                                   ELSE STR_vless)

\* The store differs from old at most under key.
OnlyKeyChanged(old, new, key) ==
    /\ DOMAIN new \ {key} = DOMAIN old \ {key}
    /\ \A k \in DOMAIN old \ {key} : new[k] = old[k]

\* C7: a batchImport on a stored group whose config yields a link goes on to
\* append one data:text/plain;base64 reference (of the links joined by
\* newline) at the end of the group's list, name, earlier links and every
\* other key unchanged, and answers success; on a missing group or a config
\* without links it answers an error and leaves the store alone.
C7_BatchImportAppendsOneReference ==
    [][\A s \in Slots :
          LET r == req[s]
              key == GroupKey(r.groupId)
              nodes == parseXrayConfig(BodyOf(r.in).xrayConfig)
          IN /\ r.pc = "exec" /\ r.action = "batchImport" /\ req'[s] # r =>
                  /\ kv' = kv
                  /\ IF KvHas(kv, key) /\ nodes # <<>>
                     THEN req'[s].pc = "put"
                     ELSE /\ req'[s].pc = "done"
                          /\ ~resp'[s].success
                          /\ resp'[s].status >= 400
             /\ r.pc = "put" /\ req'[s].pc = "done" =>
                  /\ resp'[s].success
                  /\ KvHas(kv, key) /\ KvHas(kv', key)
                  /\ OnlyKeyChanged(kv, kv', key)
                  /\ kv'[key].name = kv[key].name
                  /\ Len(kv'[key].links) = Len(kv[key].links) + 1
                  /\ SubSeq(kv'[key].links, 1, Len(kv[key].links))
                       = kv[key].links
                  /\ LET added == kv'[key].links[Len(kv'[key].links)]
                     IN /\ added.isString
                        /\ StartsWith(added.s, STR_dataUrlPrefix)
                        /\ Atob(SubSeq(added.s, Len(STR_dataUrlPrefix) + 1,
                                       Len(added.s)))
                             = Ok(Join(nodes, NL))]_vars

\* An admin request that passed checkAuth and is executing its action.
Executing(s) ==
    req[s].handler = "admin" /\ req[s].pc \in {"config", "exec", "exec2", "put"}

\* C8: an admin action executes, while no password is stored, only if it is
\* getConfig or saveConfig, and once a password is stored only if the request
\* carries "Bearer " followed by exactly that password.
C8_AuthGate ==
    \A s \in Slots :
        Executing(s) =>
            IF req[s].gate = ""
            THEN req[s].action \in {"getConfig", "saveConfig"}
            ELSE req[s].in.auth = Bearer(req[s].gate)

\* A batchImport that was answered with success.
Imported(s) ==
    /\ req[s].pc = "done"
    /\ req[s].action = "batchImport"
    /\ resp[s].success

\* C9: the put of a batchImport is unconditional: it stores the group as the
\* request read it plus its own reference, whatever the key holds by then
\* (another writer's reference, or nothing after a delete), and the request
\* is answered with success.
C9_LastWriteWins ==
    [][\A s \in Slots :
          req[s].pc = "put" /\ req'[s].pc = "done" =>
              /\ KvHas(kv', GroupKey(req[s].groupId))
              /\ kv'[GroupKey(req[s].groupId)] = req[s].group
              /\ resp'[s].success]_vars

\* C9's case: a put has stored a group again that a deleteGroup had removed,
\* and two batchImports on one group were both answered with success while
\* the stored list holds the reference of only one of them.
C9_Witness ==
    /\ raced = {"lostUpdate", "resurrected"}
    /\ \E s, t \in Slots :
          /\ s # t
          /\ Imported(s) /\ Imported(t)
          /\ req[s].groupId = req[t].groupId
          /\ KvHas(kv, GroupKey(req[s].groupId))
          /\ ImportedBy(s) \in Elements(kv[GroupKey(req[s].groupId)].links)
          /\ ImportedBy(t) \notin Elements(kv[GroupKey(req[s].groupId)].links)

\* C10: a navigation never comes back to a route it was already sent to:
\* the guards produce no redirect cycle, whatever the target, the status
\* getConfig reports and the presence of auth_token.
C10_NoRedirectCycle ==
    \A i, j \in 1..Len(nav.trail) : i < j => nav.trail[i] # nav.trail[j]

=============================================================================
